---- MODULE Spec2Model ----
(***************************************************************************)
(* Model of Element451API.py: the three client functions api_user_search,  *)
(* api_data_request and api_data_import.  One call of one function is      *)
(* modelled per behaviour; the server is the environment and picks every   *)
(* response (status, records, metadata) nondeterministically.             *)
(*                                                                         *)
(* Python values are modelled as follows.                                  *)
(*   - a str/list/dict argument such as segment is a tagged value          *)
(*     [type, str, list], so that `segment == ""`, `segment == []` and     *)
(*     isinstance() can be evaluated as Python evaluates them;             *)
(*   - a JSON object (result.json()["meta"]) is a function from keys to    *)
(*     values, `k in d` is k \in DOMAIN d, `del d[k]` removes k from the   *)
(*     domain and raises KeyError when k is absent;                        *)
(*   - a variable the code initialises with "" and later rebinds to a      *)
(*     dict (results_data, all_*_payload_results) is Unset until rebound;  *)
(*   - a record of a page is the pair <<page number, position in page>>.   *)
(***************************************************************************)
EXTENDS Integers, Sequences, FiniteSets, TLC

\* ---------------------------------------------------------------- bounds
\* The server ends a cursor-driven export at the latest on this page.
MaxPages == 3
\* A page carries 0..MaxRecs records.
MaxRecs == 2
\* A list segment holds 0..MaxListLen identifiers.
MaxListLen == 120

\* ------------------------------------------------------ program constants
\* Window of identifiers sent per request for a list segment.
PageSize == 50
\* Status the two exports accept / status the import accepts.
StatusOK == 200
StatusCreated == 201

\* ------------------------------------------------------- environment sets
\* Continuation tokens the server may hand out.
Tokens == {"a", "b"}
\* Values of meta.filtered_total (search) and meta.count (data export).
FilteredTotals == {1, 3}
Counts == {1, 2}
\* Statuses the server may answer with.
Statuses == {200, 201, 500}
\* Argument values: "" is the blank string.
Clients == {"", "client"}
Apis == {"", "api.451.io"}
Features == {"", "feature"}
Templates == {"", "client.template.8071"}
ItemsValues == {"", "rows"}
\* An unwind dict is represented by its JSON text.
DefaultUnwind == "{}"
\* <<column_key, unwind>>: both defaulted, or both given.
Options == {<<"", DefaultUnwind>>, <<"slug", "{root}">>}
Projects == {<<"_id">>}

\* --------------------------------------------------------- Python values
StrSeg(s) == [type |-> "str", str |-> s, list |-> <<>>]
ListSeg(l) == [type |-> "list", str |-> "", list |-> l]
\* An inline segment (dict); for api_data_request any non-str, non-list value.
DictSeg == [type |-> "dict", str |-> "", list |-> <<>>]

\* The identifiers of a list segment of n users.
Ids(n) == [i \in 1..n |-> i]

EmptyDict == <<>>
\* all_*_payload_results / results_data before the first rebinding ("").
Unset == [isset |-> FALSE, data |-> <<>>, meta |-> EmptyDict]
Json(data, meta) == [isset |-> TRUE, data |-> data, meta |-> meta]
\* The value of `returned` while nothing was returned.
NoResult == [data |-> <<>>, meta |-> EmptyDict]

\* Python slice s[lo:hi] on 0-based positions, clamped at the end.
Slice(s, lo, hi) ==
    LET h == IF hi < Len(s) THEN hi ELSE Len(s)
    IN  IF lo >= h THEN <<>> ELSE SubSeq(s, lo + 1, h)

\* del d[k] for k \in DOMAIN d.
DelKey(d, k) == [x \in DOMAIN d \ {k} |-> d[x]]

VARIABLES
    op,                        \* which function is called
    client, api, feature,      \* arguments
    segment, project, template, items, column_key, unwind,
    pc,                        \* "call", "loop", "returned", "raised"
    run,                       \* loop flag
    next_last_id,              \* api_user_search: cursor
    last_id_position,          \* api_data_request: cursor or offset
    segment_type,              \* api_data_request
    results_data,              \* api_user_search: buffered pages
    all_user_payload_results,  \* api_user_search
    all_data_payload_results,  \* api_data_request
    requests,                  \* payloads POSTed so far, in order
    responses,                 \* responses received so far, in order
    returned,                  \* the returned value once pc = "returned"
    exc                        \* the exception once pc = "raised"

vars == <<op, client, api, feature, segment, project, template, items,
          column_key, unwind, pc, run, next_last_id, last_id_position,
          segment_type, results_data, all_user_payload_results,
          all_data_payload_results, requests, responses, returned, exc>>

args == <<op, client, api, feature, segment, project, template, items,
          column_key, unwind>>

\* ------------------------------------------------------------ the server
\* The records of page p holding n records.
PageData(p, n) == [i \in 1..n |-> <<p, i>>]

\* A 200 response of the search export: meta always carries count and
\* filtered_total, and carries next_last_id iff more pages follow.
SearchOK(p) ==
    { [status |-> StatusOK, data |-> PageData(p, n),
       meta |-> ("count" :> n) @@ ("filtered_total" :> ft)] :
         n \in 0..MaxRecs, ft \in FilteredTotals }
    \cup
    { [status |-> StatusOK, data |-> PageData(p, n),
       meta |-> ("count" :> n) @@ ("filtered_total" :> ft)
                  @@ ("next_last_id" :> t)] :
         n \in 0..MaxRecs, ft \in FilteredTotals,
         t \in IF p < MaxPages THEN Tokens ELSE {} }

\* A 200 response of the data export: meta always carries count.
\* capped: whether the server must stop handing out tokens after page
\* MaxPages, one page later than the search server, so that a token on page
\* MaxPages is among the answers.
DataOK(p, capped) ==
    { [status |-> StatusOK, data |-> PageData(p, n),
       meta |-> ("count" :> c)] :
         n \in 0..MaxRecs, c \in Counts }
    \cup
    { [status |-> StatusOK, data |-> PageData(p, n),
       meta |-> ("count" :> c) @@ ("next_last_id" :> t)] :
         n \in 0..MaxRecs, c \in Counts,
         t \in IF capped /\ p > MaxPages THEN {} ELSE Tokens }

\* A response whose body the code never parses as JSON (any non-success
\* status of an export, every response of the import).
Unparsed(st) == [status |-> st, data |-> <<>>, meta |-> EmptyDict]

Init ==
    /\ op \in {"search", "data", "import"}
    /\ client \in Clients
    /\ api \in Apis
    /\ feature \in Features
    /\ \/ /\ op = "search"
          /\ segment \in {StrSeg(""), StrSeg("client.segments.40291"), DictSeg}
          /\ project \in Projects
          /\ template = "" /\ items = "" /\ column_key = ""
          /\ unwind = DefaultUnwind
       \/ /\ op = "data"
          /\ segment \in {StrSeg(""), StrSeg("client.segments.40291"), DictSeg}
                           \cup {ListSeg(Ids(n)) : n \in 0..MaxListLen}
          /\ template \in Templates
          /\ \E o \in Options : column_key = o[1] /\ unwind = o[2]
          /\ project = <<>> /\ items = ""
       \/ /\ op = "import"
          /\ template \in Templates
          /\ items \in ItemsValues
          /\ segment = StrSeg("") /\ project = <<>> /\ column_key = ""
          /\ unwind = DefaultUnwind
    /\ pc = "call"
    /\ run = TRUE
    /\ next_last_id = ""
    /\ last_id_position = ""
    /\ segment_type = ""
    /\ results_data = Unset
    /\ all_user_payload_results = Unset
    /\ all_data_payload_results = Unset
    /\ requests = <<>>
    /\ responses = <<>>
    /\ returned = NoResult
    /\ exc = ""

\* ------------------------------------------------------- api_user_search
\* line 26: the blank-parameter test.
SearchBlank(c, a, f, s) ==
    c = "" \/ a = "" \/ f = "" \/ (s.type = "str" /\ s.str = "")

\* Mutant: the payload is built without the cursor.
create_api_search_payload_NoCursor(segment_id, proj, last_id) ==
    [item |-> [segment |-> segment_id, project |-> proj, last_id |-> ""]]

\* lines 71-78: _create_api_search_payload.
create_api_search_payload(segment_id, proj, last_id) ==
    [item |-> [segment |-> segment_id, project |-> proj, last_id |-> last_id]]

\* Mutant: every 2xx status counts as success.
ExportSucceeded_Any2xx(status) == status \in {StatusOK, StatusCreated}

\* line 41 / line 147: the status test of both exports.
ExportSucceeded(status) == status = StatusOK

\* Mutant: a later page replaces the buffer instead of being appended to it.
SearchBuffer_Overwrite(rd, page) == Json(page.data, page.meta)

\* lines 47-53: a page that carries next_last_id is buffered in results_data.
SearchBuffer(rd, page) ==
    IF ~rd.isset
    THEN Json(page.data, page.meta)
    ELSE Json(rd.data \o page.data, rd.meta)

\* Mutant: the final page's filtered_total is left as the server sent it.
SearchFinal_NoDoubling(rd, page) ==
    [value |-> Json(IF rd.isset THEN page.data \o rd.data ELSE page.data,
                    page.meta),
     keyerror |-> "filtered_total" \notin DOMAIN page.meta]

\* lines 56-64: the final page becomes the result, the buffered records are
\* appended to its data, and its filtered_total is added to itself.
\* Reading a key the meta does not hold raises KeyError.
SearchFinal(rd, page) ==
    LET d == IF rd.isset THEN page.data \o rd.data ELSE page.data
    IN  IF "filtered_total" \in DOMAIN page.meta
        THEN [value |-> Json(d, [page.meta EXCEPT !["filtered_total"] =
                         page.meta["filtered_total"]
                           + page.meta["filtered_total"]]),
              keyerror |-> FALSE]
        ELSE [value |-> Json(d, page.meta), keyerror |-> TRUE]

\* lines 26-36: validation and the initialisation of the locals.
SearchCall ==
    /\ op = "search" /\ pc = "call"
    /\ IF SearchBlank(client, api, feature, segment)
       THEN /\ pc' = "raised"
            /\ exc' = "A required parameter was blank."
       ELSE /\ pc' = "loop"
            /\ exc' = exc
    /\ UNCHANGED <<args, run, next_last_id, last_id_position, segment_type,
                   results_data, all_user_payload_results,
                   all_data_payload_results, requests, responses, returned>>

\* lines 37-68: one iteration of the loop, and the return when it ends.
SearchIter ==
    /\ op = "search" /\ pc = "loop" /\ run
    /\ \E r \in SearchOK(Len(requests) + 1)
                 \cup {Unparsed(st) : st \in Statuses \ {StatusOK}} :
         /\ requests' = Append(requests,
               create_api_search_payload(segment, project, next_last_id))
         /\ responses' = Append(responses, r)
         /\ IF ~ExportSucceeded(r.status)
            THEN /\ pc' = "raised"
                 /\ exc' = "User search request failed"
                 /\ UNCHANGED <<run, next_last_id, results_data,
                                all_user_payload_results, returned>>
            ELSE IF "next_last_id" \in DOMAIN r.meta
            THEN /\ next_last_id' = r.meta["next_last_id"]
                 /\ results_data' = SearchBuffer(results_data, r)
                 /\ UNCHANGED <<pc, exc, run, all_user_payload_results,
                                returned>>
            ELSE LET final == SearchFinal(results_data, r)
                 IN  /\ all_user_payload_results' = final.value
                     /\ IF final.keyerror
                        THEN /\ pc' = "raised"
                             /\ exc' = "KeyError"
                             /\ UNCHANGED <<run, returned>>
                        ELSE /\ run' = FALSE
                             /\ pc' = "returned"
                             /\ exc' = exc
                             /\ returned' = [data |-> final.value.data,
                                             meta |-> final.value.meta]
                     /\ UNCHANGED <<next_last_id, results_data>>
    /\ UNCHANGED <<args, last_id_position, segment_type,
                   all_data_payload_results>>

\* ------------------------------------------------------ api_data_request
\* Mutant: the template is not tested.
DataBlank_NoTemplate(c, a, f, s, t) ==
    c = "" \/ a = "" \/ f = "" \/ (s.type = "str" /\ s.str = "")

\* line 106: the blank-parameter test.
DataBlank(c, a, f, s, t) ==
    c = "" \/ a = "" \/ f = "" \/ (s.type = "str" /\ s.str = "") \/ t = ""

\* Mutant: only the empty string is tested.
DataEmptySegment_StrOnly(s) == s.type = "str" /\ s.str = ""

\* line 123: `segment == [] or segment == ""`.
DataEmptySegment(s) ==
    (s.type = "list" /\ s.list = <<>>) \/ (s.type = "str" /\ s.str = "")

\* line 124: the result returned for an empty segment.
EmptyResult == [data |-> <<>>, meta |-> ("count" :> 0)]

\* lines 170-196: _create_api_data_payload(template_ID, segment, last_id,
\* column_key, unwind); seg is a tagged str or list.
create_api_data_payload(template_ID, seg, last_id, ck, uw) ==
    LET user_id_list == IF seg.type = "list" THEN seg.list ELSE <<>>
        segment_str == IF seg.type = "list" THEN "" ELSE seg.str
    IN  [item |-> [options |-> [column_key |-> ck, unwind |-> uw],
                   template |-> template_ID,
                   users |-> user_id_list,
                   segment |-> segment_str,
                   last_id |-> last_id]]

\* line 134: segment[last_id_position : last_id_position + 50].
DataWindow(l, pos) == Slice(l, pos, pos + PageSize)

\* line 139: the loop flag after a list request; pos is the advanced offset.
ListRun(l, pos) == ~(Len(l) < pos)

\* lines 132-137 and 142-144: the payload of the next request.  The list
\* call passes four positional arguments, so column_key lands in last_id,
\* unwind in column_key and unwind takes its default.
DataPayload(st, seg, pos) ==
    IF st = "list"
    THEN create_api_data_payload(template, ListSeg(DataWindow(seg.list, pos)),
                                 column_key, unwind, DefaultUnwind)
    ELSE create_api_data_payload(template, seg, pos, column_key, unwind)

\* lines 155-165: the first page is the base of the result; a later page is
\* appended, its count added, and next_last_id deleted from the result's
\* meta, which raises KeyError when the key is not there (as does reading
\* a count that is not there).
DataMerge(all, page) ==
    IF ~all.isset
    THEN [value |-> Json(page.data, page.meta), keyerror |-> FALSE]
    ELSE LET d == all.data \o page.data
         IN  IF "count" \notin DOMAIN all.meta \/ "count" \notin DOMAIN page.meta
             THEN [value |-> Json(d, all.meta), keyerror |-> TRUE]
             ELSE LET m == [all.meta EXCEPT !["count"] =
                               all.meta["count"] + page.meta["count"]]
                  IN  IF "next_last_id" \in DOMAIN m
                      THEN [value |-> Json(d, DelKey(m, "next_last_id")),
                            keyerror |-> FALSE]
                      ELSE [value |-> Json(d, m), keyerror |-> TRUE]

\* lines 106-128: validation, segment kind, short-circuit, initialisation.
DataCall ==
    /\ op = "data" /\ pc = "call"
    /\ IF DataBlank(client, api, feature, segment, template)
       THEN /\ pc' = "raised"
            /\ exc' = "A required parameter was blank."
            /\ UNCHANGED <<segment_type, last_id_position, returned>>
       ELSE IF segment.type \notin {"str", "list"}
       THEN /\ pc' = "raised"
            /\ exc' = "Not a valid segment or list"
            /\ UNCHANGED <<segment_type, last_id_position, returned>>
       ELSE /\ segment_type' = IF segment.type = "str" THEN "string" ELSE "list"
            /\ last_id_position' = IF segment.type = "str" THEN "" ELSE 0
            /\ IF DataEmptySegment(segment)
               THEN /\ pc' = "returned"
                    /\ returned' = EmptyResult
               ELSE /\ pc' = "loop"
                    /\ returned' = returned
            /\ exc' = exc
    /\ UNCHANGED <<args, run, next_last_id, results_data,
                   all_user_payload_results, all_data_payload_results,
                   requests, responses>>

\* lines 129-167: one iteration of the loop, and the return when it ends.
DataIter ==
    /\ op = "data" /\ pc = "loop" /\ run
    /\ LET isList == segment_type = "list"
           pos1 == IF isList THEN last_id_position + PageSize
                   ELSE last_id_position
           run1 == IF isList THEN ListRun(segment.list, pos1) ELSE run
       IN
       \E r \in DataOK(Len(requests) + 1, ~isList)
                 \cup {Unparsed(st) : st \in Statuses \ {StatusOK}} :
         /\ requests' = Append(requests,
               DataPayload(segment_type, segment, last_id_position))
         /\ responses' = Append(responses, r)
         /\ IF ~ExportSucceeded(r.status)
            THEN /\ pc' = "raised"
                 /\ exc' = "Export request failed"
                 /\ last_id_position' = pos1
                 /\ run' = run1
                 /\ UNCHANGED <<all_data_payload_results, returned>>
            ELSE LET hasNext == "next_last_id" \in DOMAIN r.meta
                     run2 == IF ~isList /\ ~hasNext THEN FALSE ELSE run1
                     merged == DataMerge(all_data_payload_results, r)
                 IN  /\ last_id_position' =
                            IF ~isList /\ hasNext
                            THEN r.meta["next_last_id"] ELSE pos1
                     /\ run' = run2
                     /\ all_data_payload_results' = merged.value
                     /\ IF merged.keyerror
                        THEN /\ pc' = "raised"
                             /\ exc' = "KeyError"
                             /\ returned' = returned
                        ELSE IF run2
                        THEN UNCHANGED <<pc, exc, returned>>
                        ELSE /\ pc' = "returned"
                             /\ exc' = exc
                             /\ returned' = [data |-> merged.value.data,
                                             meta |-> merged.value.meta]
    /\ UNCHANGED <<args, next_last_id, segment_type, results_data,
                   all_user_payload_results>>

\* ------------------------------------------------------- api_data_import
\* line 217: the blank-parameter test.
ImportBlank(c, a, f, t, i) ==
    c = "" \/ a = "" \/ f = "" \/ t = "" \/ i = ""

\* line 222: the payload.
create_import_payload(t, i) == [item |-> [template |-> t, items |-> i]]

\* Mutant: every 2xx status counts as success.
ImportSucceeded_Any2xx(status) == status \in {StatusOK, StatusCreated}

\* line 227: the status test of the import.
ImportSucceeded(status) == status = StatusCreated

\* The raw body (result.content) of the response with status st.
Content(st) == [data |-> <<"content", st>>, meta |-> EmptyDict]

\* lines 217-230: the whole function.
ApiDataImport ==
    /\ op = "import" /\ pc = "call"
    /\ IF ImportBlank(client, api, feature, template, items)
       THEN /\ pc' = "raised"
            /\ exc' = "A required parameter was blank."
            /\ UNCHANGED <<requests, responses, returned>>
       ELSE \E st \in Statuses :
              /\ requests' = Append(requests,
                                    create_import_payload(template, items))
              /\ responses' = Append(responses, Unparsed(st))
              /\ IF ImportSucceeded(st)
                 THEN /\ pc' = "returned"
                      /\ returned' = Content(st)
                      /\ exc' = exc
                 ELSE /\ pc' = "raised"
                      /\ exc' = "Error while importing"
                      /\ returned' = returned
    /\ UNCHANGED <<args, run, next_last_id, last_id_position, segment_type,
                   results_data, all_user_payload_results,
                   all_data_payload_results>>

Next ==
    \/ SearchCall
    \/ SearchIter
    \/ DataCall
    \/ DataIter
    \/ ApiDataImport

Spec == Init /\ [][Next]_vars

\* ------------------------------------------------------------ properties
\* The records of the pages received so far, in arrival order.
RECURSIVE PagesInOrder(_)
PagesInOrder(rs) ==
    IF rs = <<>> THEN <<>>
    ELSE PagesInOrder(SubSeq(rs, 1, Len(rs) - 1)) \o rs[Len(rs)].data

RECURSIVE SumOfLens(_)
SumOfLens(rs) ==
    IF rs = <<>> THEN 0
    ELSE SumOfLens(SubSeq(rs, 1, Len(rs) - 1)) + Len(rs[Len(rs)].data)

\* How often record x occurs in the sequence d.
Occurrences(d, x) == Cardinality({k \in 1..Len(d) : d[k] = x})

\* Every response so far had status 200.
AllOK == \A i \in 1..Len(responses) : responses[i].status = StatusOK

\* The server has sent its last page: a 200 response without next_last_id.
LastPageArrived ==
    /\ Len(responses) >= 1
    /\ AllOK
    /\ "next_last_id" \notin DOMAIN responses[Len(responses)].meta

\* C1: when api_user_search has received k >= 1 pages, all with status 200
\* and the last one without next_last_id, it returns a record list whose
\* length is the sum of the per-page record counts and in which every record
\* of every page occurs exactly once.
C1_EveryPageExactlyOnce ==
    (op = "search" /\ LastPageArrived) =>
        /\ pc = "returned"
        /\ Len(returned.data) = SumOfLens(responses)
        /\ \A i \in 1..Len(responses) : \A j \in 1..Len(responses[i].data) :
              Occurrences(returned.data, responses[i].data[j]) = 1

C1_Witness ==
    /\ op = "search" /\ pc = "returned"
    /\ Len(responses) = 3
    /\ \A i \in 1..3 : Len(responses[i].data) >= 1

\* C2: the record list api_user_search returns is in page arrival order:
\* the records of page i before those of page j for i < j, each page in the
\* order the server sent it.
C2_ArrivalOrder ==
    (op = "search" /\ pc = "returned") =>
        returned.data = PagesInOrder(responses)

\* C3: api_data_request with a non-empty string segment, having received k
\* pages with status 200 of which only the last lacks next_last_id, has
\* issued exactly k requests and returns the records of all pages once each
\* in arrival order, for every k >= 1.
C3_StringSegmentMerges ==
    (op = "data" /\ segment_type = "string" /\ LastPageArrived) =>
        /\ pc = "returned"
        /\ Len(requests) = Len(responses)
        /\ returned.data = PagesInOrder(responses)

\* C4: api_data_request with a list segment of n >= 1 identifiers: request
\* j (from 0) carries the identifiers at positions [50j, min(50j+50, n)),
\* and a call in which every response had status 200 ends having issued one
\* request per window start 0, 50, ... up to n (3 requests for n = 120).
C4_ListWindows ==
    (op = "data" /\ segment_type = "list" /\ segment.list # <<>>) =>
        /\ \A j \in 1..Len(requests) :
              requests[j].item.users =
                 Slice(segment.list, PageSize * (j - 1), PageSize * j)
        /\ (pc \in {"returned", "raised"} /\ AllOK) =>
              Len(requests) = (Len(segment.list) \div PageSize) + 1

\* C5: in api_user_search and api_data_request a response whose status is
\* not 200 is the last one of the call: the call has raised the request
\* failure, returned nothing, and issued one request per response and none
\* after the failed one.
C5_FailureAborts ==
    op \in {"search", "data"} =>
        \A i \in 1..Len(responses) :
            responses[i].status # StatusOK =>
                /\ i = Len(responses)
                /\ Len(requests) = i
                /\ pc = "raised"
                /\ exc \in {"User search request failed",
                            "Export request failed"}
                /\ returned = NoResult

C5_Witness ==
    /\ op \in {"search", "data"}
    /\ pc = "raised"
    /\ Len(responses) >= 2
    /\ responses[Len(responses)].status # StatusOK

\* C6: api_data_request with an empty list segment and non-blank client,
\* host, feature and template returns {data: [], meta: {count: 0}} and
\* issues no request.
C6_EmptyListShortCircuit ==
    (/\ op = "data" /\ pc # "call"
     /\ segment = ListSeg(<<>>)
     /\ client # "" /\ api # "" /\ feature # "" /\ template # "") =>
        /\ pc = "returned"
        /\ returned = [data |-> <<>>, meta |-> ("count" :> 0)]
        /\ requests = <<>>

C6_Witness ==
    /\ op = "data" /\ pc = "returned"
    /\ segment = ListSeg(<<>>)
    /\ requests = <<>>

\* C7: api_data_request with the empty string as segment (the other
\* parameters non-blank) returns {data: [], meta: {count: 0}} and issues no
\* request.
C7_EmptyStringShortCircuit ==
    (/\ op = "data" /\ pc # "call"
     /\ segment = StrSeg("")
     /\ client # "" /\ api # "" /\ feature # "" /\ template # "") =>
        /\ pc = "returned"
        /\ returned = [data |-> <<>>, meta |-> ("count" :> 0)]
        /\ requests = <<>>

\* Whether the segment argument is the empty string.
SegmentIsBlank == segment.type = "str" /\ segment.str = ""

\* C8: a call with a blank required parameter (search: client, host,
\* feature, segment; data export: these and template, or a segment that is
\* neither string nor list; import: client, host, feature, template, items)
\* raises without having issued any request.
C8_ValidationBeforeNetwork ==
    LET blank3 == client = "" \/ api = "" \/ feature = ""
        invalid ==
            \/ op = "search" /\ (blank3 \/ SegmentIsBlank)
            \/ op = "data" /\ (blank3 \/ SegmentIsBlank \/ template = ""
                                \/ segment.type \notin {"str", "list"})
            \/ op = "import" /\ (blank3 \/ template = "" \/ items = "")
    IN  (invalid /\ pc # "call") =>
            /\ pc = "raised"
            /\ exc \in {"A required parameter was blank.",
                        "Not a valid segment or list"}
            /\ requests = <<>>
            /\ responses = <<>>
            /\ returned = NoResult

C8_Witness ==
    /\ op = "data" /\ pc = "raised"
    /\ client # "" /\ api # "" /\ feature # "" /\ ~SegmentIsBlank
    /\ template = ""
    /\ requests = <<>>

\* C9: api_user_search follows the cursor protocol: the first request
\* carries the empty last_id, request i+1 exists only if response i had
\* status 200 and a next_last_id and carries exactly that value, and a 200
\* response without next_last_id is answered by no further request.
C9_CursorProtocol ==
    op = "search" =>
        /\ Len(requests) = Len(responses)
        /\ Len(requests) >= 1 => requests[1].item.last_id = ""
        /\ \A i \in 1..Len(requests) - 1 :
              /\ responses[i].status = StatusOK
              /\ "next_last_id" \in DOMAIN responses[i].meta
              /\ requests[i + 1].item.last_id =
                    responses[i].meta["next_last_id"]
        /\ \A i \in 1..Len(responses) :
              (/\ responses[i].status = StatusOK
               /\ "next_last_id" \notin DOMAIN responses[i].meta)
                 => (i = Len(requests) /\ pc = "returned")

C9_Witness ==
    /\ op = "search" /\ pc = "returned"
    /\ Len(requests) = 3
    /\ requests[2].item.last_id = "a"
    /\ requests[3].item.last_id = "b"

\* C10: what api_user_search returns carries the final page's metadata with
\* filtered_total replaced by twice the final page's value, whatever the
\* number of pages before it; after a single page the returned records are
\* the server's too.
C10_FinalPageMetaDoubled ==
    (op = "search" /\ pc = "returned") =>
        LET final == responses[Len(responses)]
        IN  /\ DOMAIN returned.meta = DOMAIN final.meta
            /\ returned.meta["filtered_total"] =
                  2 * final.meta["filtered_total"]
            /\ \A k \in DOMAIN final.meta \ {"filtered_total"} :
                  returned.meta[k] = final.meta[k]
            /\ Len(responses) = 1 => returned.data = final.data

C10_Witness ==
    /\ op = "search" /\ pc = "returned"
    /\ Len(responses) = 3
    /\ responses[1].meta["filtered_total"] = 1
    /\ responses[3].meta["filtered_total"] = 3
    /\ returned.meta["filtered_total"] = 6

RECURSIVE SumOfCounts(_)
SumOfCounts(rs) ==
    IF rs = <<>> THEN 0
    ELSE SumOfCounts(SubSeq(rs, 1, Len(rs) - 1)) + rs[Len(rs)].meta["count"]

\* C11: whenever api_data_request returns after k >= 1 pages, the count of
\* the returned metadata is the sum of the k per-page counts and the
\* returned metadata holds no next_last_id (after one page the result is
\* that page's response).
C11_CountSumNoCursor ==
    (op = "data" /\ pc = "returned" /\ Len(responses) >= 1) =>
        /\ returned.meta["count"] = SumOfCounts(responses)
        /\ "next_last_id" \notin DOMAIN returned.meta
        /\ Len(responses) = 1 => returned.data = responses[1].data

\* C12: api_data_import with non-blank arguments has, once it ended, issued
\* exactly one request; it returned the raw body if and only if the status
\* was 201 and raised, returning nothing, for every other status.
C12_ImportOnePost ==
    (/\ op = "import" /\ pc # "call"
     /\ client # "" /\ api # "" /\ feature # ""
     /\ template # "" /\ items # "") =>
        /\ Len(requests) = 1 /\ Len(responses) = 1
        /\ requests[1] = [item |-> [template |-> template, items |-> items]]
        /\ pc = "returned" <=> responses[1].status = 201
        /\ pc = "returned" => returned.data = <<"content", 201>>
        /\ pc # "returned" =>
              /\ pc = "raised"
              /\ exc = "Error while importing"
              /\ returned = NoResult

C12_Witness ==
    /\ op = "import" /\ pc = "raised"
    /\ Len(requests) = 1
    /\ responses[1].status = 200

\* C13: every request of api_data_request carries the caller's column_key
\* in options.column_key and the caller's unwind in options.unwind; for a
\* list segment its last_id and its segment field are the empty string.
C13_OptionsPassedThrough ==
    op = "data" =>
        \A j \in 1..Len(requests) :
            /\ requests[j].item.options.column_key = column_key
            /\ requests[j].item.options.unwind = unwind
            /\ segment_type = "list" =>
                  /\ requests[j].item.last_id = ""
                  /\ requests[j].item.segment = ""

\* C14: api_data_request with a list segment of more than 50 identifiers
\* and only status-200 responses never raises, and returns the records of
\* the responses in window order, whatever the responses' metadata holds.
C14_ListMergeCompletes ==
    (/\ op = "data" /\ segment_type = "list"
     /\ Len(segment.list) > PageSize
     /\ AllOK) =>
        /\ pc # "raised"
        /\ ~run => pc = "returned"
        /\ pc = "returned" => returned.data = PagesInOrder(responses)

\* ceil(n / 50).
WindowsNeeded(n) == (n + PageSize - 1) \div PageSize

\* C15: api_data_request with a list segment of n >= 1 identifiers issues
\* no request with an empty users window, and returns after ceil(n / 50)
\* requests.
C15_NoEmptyWindow ==
    (op = "data" /\ segment_type = "list" /\ segment.list # <<>>) =>
        /\ \A j \in 1..Len(requests) : requests[j].item.users # <<>>
        /\ pc = "returned" =>
              Len(requests) = WindowsNeeded(Len(segment.list))

\* The last response ends a cursor-driven export: it has another status
\* than 200 or carries no next_last_id.
ServerEnded ==
    /\ Len(responses) >= 1
    /\ \/ responses[Len(responses)].status # StatusOK
       \/ "next_last_id" \notin DOMAIN responses[Len(responses)].meta

\* C16: a list-segment api_data_request issues at most floor(n / 50) + 1
\* requests; api_user_search and a string-segment api_data_request, once in
\* their loop, have ended exactly when the server's last response had a
\* status other than 200 or no next_last_id, and go on otherwise.
C16_Termination ==
    /\ (op = "data" /\ segment_type = "list") =>
          Len(requests) <= (Len(segment.list) \div PageSize) + 1
    /\ (/\ op = "search" \/ (op = "data" /\ segment_type = "string")
        /\ Len(requests) >= 1) =>
          (pc \in {"returned", "raised"} <=> ServerEnded)
====
